---------------------------- MODULE Spec2Model ----------------------------
(***************************************************************************)
(* A model of the propositional resolution prover: the clausifier of       *)
(* src/src/clauses.rs (eliminate_implication, reduce_negation,             *)
(* bubble_up_ands, split_on_ands, from_or_not_prop) and the resolver of    *)
(* src/src/resolution.rs (resolve, resolve_, combine, ClauseStorage).      *)
(*                                                                         *)
(* A Proposition is a tuple whose first element is its variant:            *)
(*   <<"Term", s>>, <<"Not", f>>, <<"And", f, g>>, <<"Or", f, g>>,         *)
(*   <<"Implies", f, g>>, <<"Iff", f, g>>.                                 *)
(* A ClausePart is <<"Term", s>> or <<"NegatedTerm", s>>; a Clause is the  *)
(* record [parts |-> <sequence of ClausePart>], compared as Rust's derived *)
(* PartialEq/Hash on Vec<ClausePart> compares it: position by position.    *)
(* A panic! is the value Panic, which every caller passes on unchanged.    *)
(***************************************************************************)
EXTENDS Naturals, Sequences, FiniteSets, TLC

VARIABLES
    \* ---- Clause::break_into_clauses, one local per pipeline stage ----
    prop,             \* the proposition handed to Clause::from_proposition
    stage,            \* how far the pipeline has run
    no_implication,   \* let no_implication = eliminate_implication(prop)
    red_negations,    \* let red_negations = reduce_negation(no_implication)
    bubbled,          \* let bubbled = bubble_up_ands(red_negations)
    or_not_props,     \* let or_not_props = split_on_ands(bubbled)
    prop_clauses,     \* the Vec<Clause> from_proposition returns
    \* ---- resolve / resolve_ ----
    assumptions,      \* resolve's argument `assumptions`
    goal,             \* resolve's argument `goal`
    pc,               \* where the call of resolve stands
    clauses,          \* the assumption-only ClauseStorage `clauses`
    neg_goal_clauses, \* Clause::from_proposition(not(goal))
    seed,             \* index into neg_goal_clauses of the seed `c`
    all_clauses,      \* the per-seed ClauseStorage `all_clauses`
    stack,            \* the activation records of resolve_, outermost first
    step,             \* <<[current, m, next]>> of the latest combine, or <<>>
    result,           \* the boolean resolve returned
    invocation,       \* 1 for the first call of resolve, 2 for the second
    first_result      \* what the first call returned

clausify_vars == <<prop, stage, no_implication, red_negations, bubbled,
                   or_not_props, prop_clauses>>

resolve_vars == <<assumptions, goal, pc, clauses, neg_goal_clauses, seed,
                  all_clauses, stack, step, result, invocation, first_result>>

vars == <<prop, stage, no_implication, red_negations, bubbled, or_not_props,
          prop_clauses, assumptions, goal, pc, clauses, neg_goal_clauses,
          seed, all_clauses, stack, step, result, invocation, first_result>>

-----------------------------------------------------------------------------
(* Bounds of the model.                                                    *)

\* Largest number of nodes of a proposition handed to the clausifier.
MaxNodes == 6

\* Largest total number of nodes of goal plus assumptions handed to resolve.
MaxInputNodes == 6

\* Deepest nesting of resolve_ activations before the stack is exhausted.
MaxDepth == 6

\* Atoms of the propositions handed to the clausifier.
Atoms == {"a", "b", "c"}

\* Atoms of the propositions handed to resolve.
ResolveAtoms == {"p", "q"}

-----------------------------------------------------------------------------
(* propositions.rs: the Proposition enum and its constructors.             *)

term(value) == <<"Term", value>>

not(p) == <<"Not", p>>

and(a, b) == <<"And", a, b>>

or(a, b) == <<"Or", a, b>>

implies(a, b) == <<"Implies", a, b>>

iff(a, b) == <<"Iff", a, b>>

\* The value of an unwinding panic!.
Panic == <<"Panic">>

IsPanic(x) == x[1] = "Panic"

\* A local that has not been assigned yet.
None == <<"None">>

-----------------------------------------------------------------------------
(* clauses.rs: the clausifier.                                             *)

RECURSIVE eliminate_implication(_)
eliminate_implication(p) ==
    CASE p[1] = "Implies" ->
            LET a_simpl == eliminate_implication(p[2])
                b_simpl == eliminate_implication(p[3])
            IN  or(not(a_simpl), b_simpl)
      [] p[1] = "Iff" ->
            and(eliminate_implication(implies(p[2], p[3])),
                eliminate_implication(implies(p[3], p[2])))
      [] OTHER -> p

\* A binary node over two results, unless one of them is a panic.
Join(tag, l, r) ==
    IF IsPanic(l) \/ IsPanic(r) THEN Panic ELSE <<tag, l, r>>

\* reduce_negation without the recursion into the operands of an And or Or
\* node that is not under a Not: a faulty variant that C8 must tell apart.
RECURSIVE reduce_negation_shallow(_)
reduce_negation_shallow(p) ==
    CASE p[1] = "Not" ->
            LET a2 == p[2] IN
            CASE a2[1] = "Not"  -> reduce_negation_shallow(a2[2])
              [] a2[1] = "And"  -> Join("Or", reduce_negation_shallow(not(a2[2])),
                                              reduce_negation_shallow(not(a2[3])))
              [] a2[1] = "Or"   -> Join("And", reduce_negation_shallow(not(a2[2])),
                                               reduce_negation_shallow(not(a2[3])))
              [] a2[1] = "Term" -> not(term(a2[2]))
              [] OTHER          -> Panic
      [] p[1] = "Or"   -> or(p[2], p[3])
      [] p[1] = "And"  -> and(p[2], p[3])
      [] p[1] = "Term" -> term(p[2])
      [] OTHER         -> Panic

RECURSIVE reduce_negation(_)
reduce_negation(p) ==
    CASE p[1] = "Not" ->
            LET a2 == p[2] IN
            CASE a2[1] = "Not"  -> reduce_negation(a2[2])
              [] a2[1] = "And"  -> Join("Or", reduce_negation(not(a2[2])),
                                              reduce_negation(not(a2[3])))
              [] a2[1] = "Or"   -> Join("And", reduce_negation(not(a2[2])),
                                               reduce_negation(not(a2[3])))
              [] a2[1] = "Term" -> not(term(a2[2]))
              [] OTHER          -> Panic
      [] p[1] = "Or"   -> Join("Or", reduce_negation(p[2]), reduce_negation(p[3]))
      [] p[1] = "And"  -> Join("And", reduce_negation(p[2]), reduce_negation(p[3]))
      [] p[1] = "Term" -> term(p[2])
      [] OTHER         -> Panic

\* Distribute with the right operand lost from the second conjunct of the
\* left rule: a faulty variant that C3 must tell apart.
Distribute_lossy(handled) ==
    CASE IsPanic(handled) -> Panic
      [] handled[1] = "Or" ->
            LET a2 == handled[2]
                b2 == handled[3]
            IN  IF a2[1] = "And"
                THEN and(or(a2[2], b2), a2[3])
                ELSE IF b2[1] = "And"
                THEN and(or(a2, b2[2]), or(a2, b2[3]))
                ELSE or(a2, b2)
      [] handled[1] = "And"  -> and(handled[2], handled[3])
      [] handled[1] = "Not"  -> not(handled[2])
      [] handled[1] = "Term" -> term(handled[2])
      [] OTHER -> Panic

\* The second match of bubble_up_ands_: one distribution step at the root.
Distribute(handled) ==
    CASE IsPanic(handled) -> Panic
      [] handled[1] = "Or" ->
            LET a2 == handled[2]
                b2 == handled[3]
            IN  IF a2[1] = "And"
                THEN and(or(a2[2], b2), or(a2[3], b2))
                ELSE IF b2[1] = "And"
                THEN and(or(a2, b2[2]), or(a2, b2[3]))
                ELSE or(a2, b2)
      [] handled[1] = "And"  -> and(handled[2], handled[3])
      [] handled[1] = "Not"  -> not(handled[2])
      [] handled[1] = "Term" -> term(handled[2])
      [] OTHER -> Panic

\* bubble_up_ands_ returns the pair (Proposition, bool); the model keeps the
\* proposition at index 1 and the flag at index 2.  On an Implies or Iff with
\* cleared = false the code calls itself with the same arguments until the
\* stack is exhausted: the process aborts, which is the value Panic here.
RECURSIVE bubble_up_ands_(_, _)
bubble_up_ands_(p, cleared) ==
    LET Sub(q) == bubble_up_ands_(q, FALSE)[1]
        Under(q) == IF IsPanic(q) THEN Panic ELSE not(q)
        handled ==
            CASE cleared       -> p
              [] p[1] = "Term" -> term(p[2])
              [] p[1] = "Not"  -> Under(Sub(p[2]))
              [] p[1] = "Or"   -> Join("Or", Sub(p[2]), Sub(p[3]))
              [] p[1] = "And"  -> Join("And", Sub(p[2]), Sub(p[3]))
              [] OTHER         -> Panic
    IN  <<Distribute(handled), TRUE>>

bubble_up_ands(p) == bubble_up_ands_(p, FALSE)[1]

RECURSIVE split_on_ands(_)
split_on_ands(p) ==
    IF p[1] = "And"
    THEN split_on_ands(p[2]) \o split_on_ands(p[3])
    ELSE <<p>>

\* The parts of a clause whose construction panicked.
PanicParts == <<Panic>>

IsPanicParts(ps) == Len(ps) > 0 /\ IsPanic(ps[1])

RECURSIVE from_or_not_prop(_)
from_or_not_prop(p) ==
    CASE p[1] = "Or" ->
            LET a_parts == from_or_not_prop(p[2])
                b_parts == from_or_not_prop(p[3])
            IN  IF IsPanicParts(a_parts) \/ IsPanicParts(b_parts)
                THEN PanicParts
                ELSE a_parts \o b_parts
      [] p[1] = "Not" ->
            IF p[2][1] = "Term" THEN <<<<"NegatedTerm", p[2][2]>>>>
                                ELSE PanicParts
      [] p[1] = "Term" -> <<<<"Term", p[2]>>>>
      [] OTHER -> PanicParts

\* A Vec of clause parts vectors whose construction panicked.
PanicVec == <<PanicParts>>

IsPanicVec(v) == Len(v) > 0 /\ IsPanicParts(v[1])

\* or_not_props.iter().map(|p| Clause::from_or_not_prop(p)).collect()
CollectParts(props) ==
    LET all == [i \in 1..Len(props) |-> from_or_not_prop(props[i])]
    IN  IF \E i \in 1..Len(all) : IsPanicParts(all[i]) THEN PanicVec ELSE all

break_into_clauses(p) ==
    LET no_impl == eliminate_implication(p)
        red_neg == reduce_negation(no_impl)
    IN  IF IsPanic(red_neg) THEN PanicVec
        ELSE LET bub == bubble_up_ands(red_neg)
             IN  IF IsPanic(bub) THEN PanicVec
                 ELSE CollectParts(split_on_ands(bub))

\* A Vec<Clause> whose construction panicked.
PanicClauses == <<[parts |-> PanicParts]>>

IsPanicClauses(cs) == Len(cs) > 0 /\ IsPanicParts(cs[1].parts)

\* all_parts.iter().map(|parts| Clause { parts: parts.to_vec() }).collect()
ToClauses(all_parts) ==
    IF IsPanicVec(all_parts) THEN PanicClauses
    ELSE [i \in 1..Len(all_parts) |-> [parts |-> all_parts[i]]]

from_proposition(p) == ToClauses(break_into_clauses(p))

\* negate without the flip of the polarity: a faulty variant that C6 must
\* tell apart.
negate_same(part) == <<part[1], part[2]>>

negate(part) ==
    IF part[1] = "Term" THEN <<"NegatedTerm", part[2]>>
                        ELSE <<"Term", part[2]>>

-----------------------------------------------------------------------------
(* Classical semantics, used to state the claims.  A truth assignment is   *)
(* the set of the atoms it makes true.                                     *)

RECURSIVE AtomsOf(_)
AtomsOf(p) ==
    CASE p[1] = "Term" -> {p[2]}
      [] p[1] = "Not"  -> AtomsOf(p[2])
      [] OTHER         -> AtomsOf(p[2]) \cup AtomsOf(p[3])

RECURSIVE Eval(_, _)
Eval(p, v) ==
    CASE p[1] = "Term"    -> p[2] \in v
      [] p[1] = "Not"     -> ~Eval(p[2], v)
      [] p[1] = "And"     -> Eval(p[2], v) /\ Eval(p[3], v)
      [] p[1] = "Or"      -> Eval(p[2], v) \/ Eval(p[3], v)
      [] p[1] = "Implies" -> Eval(p[2], v) => Eval(p[3], v)
      [] p[1] = "Iff"     -> Eval(p[2], v) <=> Eval(p[3], v)

PartTrue(part, v) ==
    IF part[1] = "Term" THEN part[2] \in v ELSE part[2] \notin v

ClauseTrue(c, v) == \E i \in 1..Len(c.parts) : PartTrue(c.parts[i], v)

ClausesTrue(cs, v) == \A i \in 1..Len(cs) : ClauseTrue(cs[i], v)

RECURSIVE HasImplOrIff(_)
HasImplOrIff(p) ==
    CASE p[1] = "Term" -> FALSE
      [] p[1] = "Not"  -> HasImplOrIff(p[2])
      [] p[1] \in {"Implies", "Iff"} -> TRUE
      [] OTHER -> HasImplOrIff(p[2]) \/ HasImplOrIff(p[3])

\* Not occurs only directly around a Term.
RECURSIVE IsNNF(_)
IsNNF(p) ==
    CASE p[1] = "Term" -> TRUE
      [] p[1] = "Not"  -> p[2][1] = "Term"
      [] OTHER         -> IsNNF(p[2]) /\ IsNNF(p[3])

RECURSIVE HasAnd(_)
HasAnd(p) ==
    CASE p[1] = "Term" -> FALSE
      [] p[1] = "Not"  -> HasAnd(p[2])
      [] p[1] = "And"  -> TRUE
      [] OTHER         -> HasAnd(p[2]) \/ HasAnd(p[3])

\* Some Or node has an And node beneath it.
RECURSIVE HasAndUnderOr(_)
HasAndUnderOr(p) ==
    CASE p[1] = "Term" -> FALSE
      [] p[1] = "Not"  -> HasAndUnderOr(p[2])
      [] p[1] = "Or"   -> HasAnd(p[2]) \/ HasAnd(p[3])
      [] OTHER         -> HasAndUnderOr(p[2]) \/ HasAndUnderOr(p[3])

-----------------------------------------------------------------------------
(* The propositions the model hands to the program.                        *)

\* The propositions over `atoms` of exactly Len(table) + 1 nodes, given the
\* table of those of 1, 2, ... nodes.
NextSize(table, atoms) ==
    LET n == Len(table) + 1
    IN  IF n = 1 THEN {term(a) : a \in atoms}
        ELSE {not(f) : f \in table[n - 1]}
             \cup UNION {
                    {<<tag, l, r>> : tag \in {"And", "Or", "Implies", "Iff"},
                                     l \in table[i],
                                     r \in table[n - 1 - i]}
                    : i \in 1..(n - 2)}

\* The table whose n-th entry is the set of propositions of exactly n nodes.
RECURSIVE PropTable(_, _, _)
PropTable(n, atoms, table) ==
    IF Len(table) >= n THEN table
    ELSE PropTable(n, atoms, Append(table, NextSize(table, atoms)))

\* f is a proposition of exactly n nodes, given the table of the
\* propositions of fewer nodes.
HasSize(f, n, table) ==
    \/ n = 1 /\ f \in table[1]
    \/ n > 1 /\ \E g \in table[n - 1] : f = not(g)
    \/ \E i \in 1..(n - 2) :
          \E tag \in {"And", "Or", "Implies", "Iff"},
             l \in table[i], r \in table[n - 1 - i] : f = <<tag, l, r>>

\* The propositions of the test suite of clauses.rs and of the distribution
\* scenarios with two conjunctions.
ClausifyScenarios ==
    { or(and(term("a"), term("b")), and(term("c"), term("d"))),
      or(and(term("a"), term("b")), term("c")),
      or(term("a"), and(term("b"), term("c"))),
      not(or(term("a"), or(term("b"), not(term("c"))))),
      or(not(and(term("a"), term("b"))), term("c")),
      iff(term("a"), term("b")) }

\* The propositions over Atoms of fewer than MaxNodes nodes, by size.
ClausifyTable == PropTable(MaxNodes - 1, Atoms, <<>>)

\* f is a proposition handed to Clause::from_proposition.
ClausifyInput(f) ==
    \/ \E n \in 1..MaxNodes : HasSize(f, n, ClausifyTable)
    \/ f \in ClausifyScenarios

-----------------------------------------------------------------------------
(* Clause::from_proposition, stage by stage (clauses.rs, lines 44-67).     *)

ResolveIdle ==
    /\ assumptions = <<>>
    /\ goal = None
    /\ pc = "idle"
    /\ clauses = None
    /\ neg_goal_clauses = <<>>
    /\ seed = 0
    /\ all_clauses = None
    /\ stack = <<>>
    /\ step = <<>>
    /\ result = None
    /\ invocation = 0
    /\ first_result = None

InitClausify ==
    /\ ClausifyInput(prop)
    /\ stage = "input"
    /\ no_implication = None
    /\ red_negations = None
    /\ bubbled = None
    /\ or_not_props = <<>>
    /\ prop_clauses = <<>>
    /\ ResolveIdle

EliminateImplication ==
    /\ stage = "input"
    /\ no_implication' = eliminate_implication(prop)
    /\ stage' = "no_implication"
    /\ UNCHANGED <<prop, red_negations, bubbled, or_not_props, prop_clauses>>
    /\ UNCHANGED resolve_vars

ReduceNegation ==
    /\ stage = "no_implication"
    /\ red_negations' = reduce_negation(no_implication)
    /\ stage' = IF IsPanic(red_negations') THEN "panic" ELSE "red_negations"
    /\ UNCHANGED <<prop, no_implication, bubbled, or_not_props, prop_clauses>>
    /\ UNCHANGED resolve_vars

BubbleUpAnds ==
    /\ stage = "red_negations"
    /\ bubbled' = bubble_up_ands(red_negations)
    /\ stage' = IF IsPanic(bubbled') THEN "panic" ELSE "bubbled"
    /\ UNCHANGED <<prop, no_implication, red_negations, or_not_props, prop_clauses>>
    /\ UNCHANGED resolve_vars

SplitOnAnds ==
    /\ stage = "bubbled"
    /\ or_not_props' = split_on_ands(bubbled)
    /\ stage' = "or_not_props"
    /\ UNCHANGED <<prop, no_implication, red_negations, bubbled, prop_clauses>>
    /\ UNCHANGED resolve_vars

FromOrNotProps ==
    /\ stage = "or_not_props"
    /\ prop_clauses' = ToClauses(CollectParts(or_not_props))
    /\ stage' = IF IsPanicClauses(prop_clauses') THEN "panic" ELSE "clauses"
    /\ UNCHANGED <<prop, no_implication, red_negations, bubbled, or_not_props>>
    /\ UNCHANGED resolve_vars

NextClausify ==
    \/ EliminateImplication
    \/ ReduceNegation
    \/ BubbleUpAnds
    \/ SplitOnAnds
    \/ FromOrNotProps

SpecClausify == InitClausify /\ [][NextClausify]_vars

-----------------------------------------------------------------------------
(* resolution.rs: ClauseStorage.  lookup_table is the MultiMap from clause *)
(* part to the Vec of indices inserted under it (its domain is the set of  *)
(* keys present); indices count from 0 as in the code.                     *)

\* ClauseStorage::new()
new == [lookup_table |-> <<>>, clauses |-> <<>>]

\* MultiMap::insert: append the value to the key's vector.
Insert(table, key, value) ==
    IF key \in DOMAIN table
    THEN [table EXCEPT ![key] = Append(@, value)]
    ELSE [k \in DOMAIN table \cup {key} |->
            IF k = key THEN <<value>> ELSE table[k]]

RECURSIVE InsertParts(_, _, _, _)
InsertParts(table, parts, i, index) ==
    IF i > Len(parts) THEN table
    ELSE InsertParts(Insert(table, parts[i], index), parts, i + 1, index)

put(self, clause) ==
    LET index == Len(self.clauses)
    IN  [lookup_table |-> InsertParts(self.lookup_table, clause.parts, 1, index),
         clauses |-> Append(self.clauses, clause)]

\* A faulty filling of a store that leaves out the last clause.
RECURSIVE PutAll_short(_, _, _)
PutAll_short(self, cs, i) ==
    IF i >= Len(cs) THEN self ELSE PutAll_short(put(self, cs[i]), cs, i + 1)

RECURSIVE PutAll(_, _, _)
PutAll(self, cs, i) ==
    IF i > Len(cs) THEN self ELSE PutAll(put(self, cs[i]), cs, i + 1)

get(self, part, visited) ==
    IF part \in DOMAIN self.lookup_table
    THEN LET indices == self.lookup_table[part]
             found == [k \in 1..Len(indices) |-> self.clauses[indices[k] + 1]]
         IN  SelectSeq(found, LAMBDA v : v \notin visited)
    ELSE <<>>

-----------------------------------------------------------------------------
(* resolution.rs: combine.                                                 *)

PartsOf(c) == {c.parts[i] : i \in 1..Len(c.parts)}

\* The HashSet all_parts once the complementary pairs are removed.
CombinedParts(a, b) ==
    LET removed == {x \in PartsOf(a) \cup PartsOf(b) :
                       \E ap \in PartsOf(a), bp \in PartsOf(b) :
                           negate(ap) = bp /\ (x = ap \/ x = bp)}
    IN  (PartsOf(a) \cup PartsOf(b)) \ removed

\* The orders in which iterating a HashSet may yield its elements: the
\* std HashSet is seeded per instance (RandomState), so any order.
Orderings(S) ==
    {s \in [1..Cardinality(S) -> S] :
        \A i, j \in 1..Cardinality(S) : i # j => s[i] # s[j]}

\* The clauses combine(a, b) may return.
combine(a, b) == {[parts |-> s] : s \in Orderings(CombinedParts(a, b))}

-----------------------------------------------------------------------------
(* The inputs of resolve.                                                  *)

\* The table whose (b+1)-th entry is the set of the sequences of
\* propositions of `props` (a table by size) of at most b nodes in total.
RECURSIVE SeqTable(_, _, _)
SeqTable(budget, props, table) ==
    IF Len(table) > budget THEN table
    ELSE LET b == Len(table)
             longer == UNION {
                 {<<f>> \o s : f \in props[n], s \in table[b - n + 1]}
                 : n \in 1..b}
         IN  SeqTable(budget, props, Append(table, {<<>>} \cup longer))

\* The propositions over ResolveAtoms of at most MaxInputNodes nodes, by
\* size, and the sequences of them, by total size.
ResolveTable == PropTable(MaxInputNodes, ResolveAtoms, <<>>)

ResolveSeqs == SeqTable(MaxInputNodes, ResolveTable, <<>>)

\* The calls of the test suite of resolution.rs, a pair of implications that
\* form a cycle, and two assumptions whose resolvent has the literals of a
\* stored clause.
ResolveScenarios ==
    LET p == term("p")  q == term("q")  r == term("r")
        s == term("s")  t == term("t")  a == term("a")
    IN  { [assumptions |-> <<a>>, goal |-> not(a)],
          [assumptions |-> <<a>>, goal |-> a],
          [assumptions |-> <<p, implies(and(p, q), r), implies(or(s, t), q), t>>,
           goal |-> r],
          [assumptions |-> <<p, implies(and(p, q), r), implies(or(s, t), q)>>,
           goal |-> r],
          [assumptions |-> <<>>, goal |-> or(p, not(p))],
          [assumptions |-> <<implies(p, q), implies(q, p)>>, goal |-> p],
          [assumptions |-> <<implies(p, q), implies(q, p)>>, goal |-> r],
          [assumptions |-> <<or(p, not(p)), or(or(p, q), not(p))>>, goal |-> q] }

\* as and g are arguments handed to resolve: a goal and assumptions of at
\* most MaxInputNodes nodes in total, or a scenario.
ResolveInput(as, g) ==
    \/ \E n \in 1..MaxInputNodes :
          /\ HasSize(g, n, ResolveTable)
          /\ as \in ResolveSeqs[MaxInputNodes - n + 1]
    \/ \E input \in ResolveScenarios :
          /\ as = input.assumptions
          /\ g = input.goal

-----------------------------------------------------------------------------
(* resolve and resolve_ (resolution.rs, lines 35-85).                      *)

ClausifyIdle ==
    /\ prop = None
    /\ stage = "idle"
    /\ no_implication = None
    /\ red_negations = None
    /\ bubbled = None
    /\ or_not_props = <<>>
    /\ prop_clauses = <<>>

InitResolve ==
    /\ ResolveInput(assumptions, goal)
    /\ pc = "start"
    /\ clauses = None
    /\ neg_goal_clauses = <<>>
    /\ seed = 0
    /\ all_clauses = None
    /\ stack = <<>>
    /\ step = <<>>
    /\ result = None
    /\ invocation = 1
    /\ first_result = None
    /\ ClausifyIdle

\* assumptions.iter().flat_map(|a| Clause::from_proposition(a.clone()))
RECURSIVE FlatMapClauses(_, _)
FlatMapClauses(props, i) ==
    IF i > Len(props) THEN <<>>
    ELSE LET cs == from_proposition(props[i])
             rest == FlatMapClauses(props, i + 1)
         IN  IF IsPanicClauses(cs) \/ IsPanicClauses(rest)
             THEN PanicClauses
             ELSE cs \o rest

\* A fresh activation record of resolve_(clauses, current, visited).
Frame(current, visited) ==
    [current |-> current, visited |-> visited,
     part |-> 0, matches |-> <<>>, match |-> 0]

\* Lines 36-45: clausify the assumptions, fill the store, clausify the
\* negated goal.
Resolve_Setup ==
    /\ pc = "start"
    /\ LET assumption_clauses == FlatMapClauses(assumptions, 1)
           negated_goal == not(goal)
           ngc == from_proposition(negated_goal)
       IN  IF IsPanicClauses(assumption_clauses) \/ IsPanicClauses(ngc)
           THEN /\ pc' = "panic"
                /\ UNCHANGED <<clauses, neg_goal_clauses, seed>>
           ELSE /\ pc' = "seeds"
                /\ clauses' = PutAll(new, assumption_clauses, 1)
                /\ neg_goal_clauses' = ngc
                /\ seed' = 1
    /\ UNCHANGED <<assumptions, goal, all_clauses, stack, step, result,
                   invocation, first_result>>
    /\ UNCHANGED clausify_vars

\* Lines 47-59 and 63: the next seed c, its store and its first activation,
\* or `false` when the seeds are exhausted.
Resolve_Seed ==
    /\ pc = "seeds"
    /\ IF seed > Len(neg_goal_clauses)
       THEN /\ pc' = "done"
            /\ result' = FALSE
            /\ UNCHANGED <<all_clauses, stack>>
       ELSE LET c == neg_goal_clauses[seed]
                others == SelectSeq(neg_goal_clauses, LAMBDA v : v # c)
            IN  /\ all_clauses' = PutAll(clauses, others, 1)
                /\ stack' = <<Frame(c, {c})>>
                /\ pc' = "search"
                /\ UNCHANGED result
    /\ step' = <<>>
    /\ UNCHANGED <<assumptions, goal, clauses, neg_goal_clauses, seed,
                   invocation, first_result>>
    /\ UNCHANGED clausify_vars

Top == stack[Len(stack)]

\* The innermost activation is between two iterations of `for p in
\* current.parts.clone()`: the matches of its part are used up, parts remain.
MorePartsGuard ==
    /\ pc = "search"
    /\ Top.match = Len(Top.matches)
    /\ Top.part < Len(Top.current.parts)

\* The innermost activation is inside `for m in matches` with matches left.
MoreMatchesGuard ==
    /\ pc = "search"
    /\ Top.match < Len(Top.matches)

\* The innermost activation has left both loops.
ExhaustedGuard ==
    /\ pc = "search"
    /\ Top.match = Len(Top.matches)
    /\ Top.part = Len(Top.current.parts)

\* Lines 67-68: the next part p of current and its matches.
Resolve__Part ==
    /\ MorePartsGuard
    /\ LET p == Top.current.parts[Top.part + 1]
           matches == get(all_clauses, negate(p), Top.visited)
       IN  stack' = [stack EXCEPT ![Len(stack)] =
                        [@ EXCEPT !.part = @ + 1,
                                  !.matches = matches,
                                  !.match = 0]]
    /\ UNCHANGED <<assumptions, goal, pc, clauses, neg_goal_clauses, seed,
                   all_clauses, step, result, invocation, first_result>>
    /\ UNCHANGED clausify_vars

\* Lines 69-81: the next match m: combine, then return true on the empty
\* clause (every caller returns true in turn, lines 79-80 and 59-60), or
\* call resolve_ on next; the call fails when the stack is exhausted.
Resolve__Match ==
    /\ MoreMatchesGuard
    /\ LET m == Top.matches[Top.match + 1]
           advanced == [stack EXCEPT ![Len(stack)] =
                           [@ EXCEPT !.match = @ + 1]]
       IN  \E next \in combine(Top.current, m) :
             /\ step' = <<[current |-> Top.current, m |-> m, next |-> next]>>
             /\ IF Len(next.parts) = 0
                THEN /\ pc' = "done"
                     /\ result' = TRUE
                     /\ stack' = <<>>
                ELSE IF Len(stack) >= MaxDepth
                THEN /\ pc' = "overflow"
                     /\ stack' = advanced
                     /\ UNCHANGED result
                ELSE /\ stack' = Append(advanced,
                            Frame(next, Top.visited \cup {next}))
                     /\ UNCHANGED <<pc, result>>
    /\ UNCHANGED <<assumptions, goal, clauses, neg_goal_clauses, seed,
                   all_clauses, invocation, first_result>>
    /\ UNCHANGED clausify_vars

\* Line 84: every part and match is exhausted: return false to the caller,
\* which goes on with its next match, or to resolve, which goes on with
\* its next seed.
Resolve__Return ==
    /\ ExhaustedGuard
    /\ stack' = SubSeq(stack, 1, Len(stack) - 1)
    /\ IF Len(stack) = 1
       THEN /\ pc' = "seeds"
            /\ seed' = seed + 1
       ELSE UNCHANGED <<pc, seed>>
    /\ UNCHANGED <<assumptions, goal, clauses, neg_goal_clauses,
                   all_clauses, step, result, invocation, first_result>>
    /\ UNCHANGED clausify_vars

\* The caller invokes resolve a second time on the same arguments.
Reinvoke ==
    /\ pc = "done"
    /\ invocation = 1
    /\ invocation' = 2
    /\ first_result' = result
    /\ pc' = "start"
    /\ clauses' = None
    /\ neg_goal_clauses' = <<>>
    /\ seed' = 0
    /\ all_clauses' = None
    /\ stack' = <<>>
    /\ step' = <<>>
    /\ result' = None
    /\ UNCHANGED <<assumptions, goal>>
    /\ UNCHANGED clausify_vars

NextResolve ==
    \/ Resolve_Setup
    \/ Resolve_Seed
    \/ Resolve__Part
    \/ Resolve__Match
    \/ Resolve__Return
    \/ Reinvoke

SpecResolve == InitResolve /\ [][NextResolve]_vars

-----------------------------------------------------------------------------
(* Properties of the clausifier, checked under SpecClausify.               *)

Assignments(p) == SUBSET AtomsOf(p)

\* C2: Clause::from_proposition returns clauses without panicking for every
\* well-formed proposition, also when Implies or Iff occurs beneath a Not,
\* And or Or node: the pipeline never ends in a panic.
C2_ClausifierTotal == stage # "panic"

\* C3: the clauses Clause::from_proposition returns for a proposition have,
\* as a conjunction of disjunctions, the truth value of the proposition
\* under every truth assignment.
C3_ClausesEquivalent ==
    stage = "clauses" =>
        \A v \in Assignments(prop) :
            ClausesTrue(prop_clauses, v) <=> Eval(prop, v)

\* C3 witness: clauses were returned for a proposition with an Implies or
\* Iff whose negations were pushed inwards and whose disjunctions were
\* distributed over a conjunction.
C3_Witness ==
    /\ stage = "clauses"
    /\ HasImplOrIff(prop)
    /\ red_negations # no_implication
    /\ bubbled # red_negations
    /\ Len(prop_clauses) >= 3

\* C4: after eliminate_implication, reduce_negation and bubble_up_ands no
\* And node is beneath an Or node; or(and(a,b), and(c,d)) clausifies to four
\* clauses and or(and(a,b), c) to the clauses {a, c} and {b, c}.
C4_CnfPostCondition ==
    /\ (bubbled # None /\ ~IsPanic(bubbled)) => ~HasAndUnderOr(bubbled)
    /\ (/\ prop = or(and(term("a"), term("b")), and(term("c"), term("d")))
        /\ stage \in {"clauses", "panic"})
       => (stage = "clauses" /\ Len(prop_clauses) = 4)
    /\ (/\ prop = or(and(term("a"), term("b")), term("c"))
        /\ stage \in {"clauses", "panic"})
       => prop_clauses = << [parts |-> <<term("a"), term("c")>>],
                            [parts |-> <<term("b"), term("c")>>] >>

\* C7: eliminate_implication(f) holds no Implies and no Iff node at any
\* depth, and is f itself when f holds none.
C7_NoImplicationLeft ==
    no_implication # None =>
        /\ ~HasImplOrIff(no_implication)
        /\ (~HasImplOrIff(prop) => no_implication = prop)

\* C8: for a proposition without Implies and Iff, reduce_negation returns a
\* proposition in which every Not node has a Term as its direct child.
C8_NegationNormalForm ==
    (red_negations # None /\ ~HasImplOrIff(no_implication)) =>
        (~IsPanic(red_negations) /\ IsNNF(red_negations))

\* C8 witness: reduce_negation has returned for a disjunction under an And
\* or Or node whose first operand negates a conjunction that itself holds a
\* negation, so De Morgan's law applied below the root.
C8_Witness ==
    /\ red_negations # None
    /\ ~HasImplOrIff(no_implication)
    /\ no_implication[1] \in {"And", "Or"}
    /\ no_implication[2][1] = "Not"
    /\ no_implication[2][2][1] = "And"
    /\ no_implication[2][2][2][1] = "Not"
    /\ red_negations # no_implication

-----------------------------------------------------------------------------
(* Properties of the resolver, checked under SpecResolve.                  *)

RECURSIVE AtomsOfAll(_, _)
AtomsOfAll(props, i) ==
    IF i > Len(props) THEN {}
    ELSE AtomsOf(props[i]) \cup AtomsOfAll(props, i + 1)

\* Every truth assignment that satisfies all of `as` satisfies g.
Entails(as, g) ==
    \A v \in SUBSET (AtomsOfAll(as, 1) \cup AtomsOf(g)) :
        (\A i \in 1..Len(as) : Eval(as[i], v)) => Eval(g, v)

Returned == pc = "done"

\* C1: if resolve returns true, every truth assignment that satisfies all
\* the assumptions satisfies the goal.
C1_ResolveSound ==
    (Returned /\ result = TRUE) => Entails(assumptions, goal)

\* C5: two invocations of resolve on the same assumptions and goal return
\* the same boolean, whatever order the parts of each resolvent come out of
\* combine's hash set in.
C5_ResolveDeterministic ==
    (Returned /\ invocation = 2) => result = first_result

SimpleAssumptions ==
    << term("p"),
       implies(and(term("p"), term("q")), term("r")),
       implies(or(term("s"), term("t")), term("q")) >>

SimpleTrue ==
    /\ assumptions = Append(SimpleAssumptions, term("t"))
    /\ goal = term("r")

SimpleFalse ==
    /\ assumptions = SimpleAssumptions
    /\ goal = term("r")

\* C6: with the assumptions p, (p /\ q) -> r, (s \/ t) -> q and optionally
\* t, resolve on the goal r neither panics nor exhausts the stack nor
\* stops before it returns, and returns true with t and false without.
C6_SimpleScenario ==
    /\ (SimpleTrue \/ SimpleFalse) =>
          /\ pc \notin {"panic", "overflow"}
          /\ \/ Returned
             \/ pc \in {"start", "seeds"}
             \/ MorePartsGuard \/ MoreMatchesGuard \/ ExhaustedGuard
    /\ (SimpleTrue /\ Returned) => result = TRUE
    /\ (SimpleFalse /\ Returned) => result = FALSE

\* C6 witness: the second invocation with t among the assumptions has
\* returned true after the first one did.
C6_Witness ==
    /\ SimpleTrue
    /\ Returned
    /\ invocation = 2
    /\ first_result = TRUE
    /\ result = TRUE

\* C9: every truth assignment that satisfies both parents of a combine step
\* satisfies the resolvent; in particular the resolvent is empty only if the
\* parents are jointly unsatisfiable.
C9_CombineSound ==
    \A i \in 1..Len(step) :
        LET a == step[i].current
            b == step[i].m
        IN  \A v \in SUBSET {part[2] : part \in PartsOf(a) \cup PartsOf(b)} :
                (ClauseTrue(a, v) /\ ClauseTrue(b, v))
                    => ClauseTrue(step[i].next, v)

\* C10: along a recursion path of resolve_ no clause, compared by the parts
\* it holds, is the current clause of more than one activation.
C10_NoClauseRevisited ==
    \A i, j \in 1..Len(stack) :
        i < j => PartsOf(stack[i].current) # PartsOf(stack[j].current)

\* The number of occurrences of the literal l among parts.
Occurrences(parts, l) == Cardinality({i \in 1..Len(parts) : parts[i] = l})

\* a and b hold the same literals, whatever the order of their parts.
SameLiterals(a, b) ==
    /\ Len(a.parts) = Len(b.parts)
    /\ \A l \in PartsOf(a) \cup PartsOf(b) :
           Occurrences(a.parts, l) = Occurrences(b.parts, l)

\* C11: the comparisons of the search take clauses that hold the same
\* literals for equal: no candidate handed out by get holds the literals of
\* a clause of visited, and no clause the seed filter lets into the store
\* of a seed holds the literals of that seed.
C11_EqualityIgnoresOrder ==
    /\ \A k \in 1..Len(stack) :
         \A i \in 1..Len(stack[k].matches) :
           \A v \in stack[k].visited :
               ~SameLiterals(stack[k].matches[i], v)
    /\ pc = "search" =>
         \A i \in (Len(clauses.clauses) + 1)..Len(all_clauses.clauses) :
             ~SameLiterals(all_clauses.clauses[i], neg_goal_clauses[seed])

\* resolve has filled the assumption-only store and not panicked.
AfterSetup == pc \in {"seeds", "search", "done", "overflow"}

\* A search of resolve_ is under way (or has exhausted the stack).
Searching == pc \in {"search", "overflow"}

\* The clauses of the assumptions, in the order resolve stores them.
AssumptionClauses == FlatMapClauses(assumptions, 1)

\* The store and the outermost activation of the search for the seed c.
SeedSetup ==
    /\ AfterSetup => clauses.clauses = AssumptionClauses
    /\ Searching =>
         LET c == neg_goal_clauses[seed]
             others == SelectSeq(neg_goal_clauses, LAMBDA v : v # c)
         IN  /\ all_clauses.clauses = AssumptionClauses \o others
             /\ stack[1].current = c
             /\ stack[1].visited = {c}

\* A step of the search changes no store, and no step between the setup
\* and the return changes the assumption-only store.
StoresUnmodified ==
    /\ (pc = "search" /\ pc' \in {"search", "overflow", "seeds", "done"})
           => all_clauses' = all_clauses
    /\ (pc \in {"seeds", "search"}) => clauses' = clauses

\* C12: the search for each seed c of the negated goal runs on a store that
\* holds the assumption clauses followed by the clauses of the negated goal
\* other than c, in insertion order, with visited initially {c}; the
\* assumption-only store is the same before and after each search, and no
\* store changes while resolve_ runs.
C12_SeedSetupAndFrame == [] SeedSetup /\ [][StoresUnmodified]_vars

\* The search for the second seed is two activations deep, on a store that
\* holds assumption clauses and clauses of the negated goal.
C12_Witness ==
    /\ pc = "search"
    /\ seed >= 2
    /\ Len(stack) >= 2
    /\ Len(clauses.clauses) >= 1
    /\ Len(all_clauses.clauses) > Len(clauses.clauses)

\* Every stored clause is recorded under each of its literals.
IndexComplete(store) ==
    \A i \in 1..Len(store.clauses) :
        \A l \in PartsOf(store.clauses[i]) :
            /\ l \in DOMAIN store.lookup_table
            /\ \E k \in 1..Len(store.lookup_table[l]) :
                   store.lookup_table[l][k] = i - 1

\* Every recorded index is the position of a stored clause that holds the
\* literal it is recorded under.
IndexExact(store) ==
    \A l \in DOMAIN store.lookup_table :
        \A k \in 1..Len(store.lookup_table[l]) :
            LET index == store.lookup_table[l][k]
            IN  /\ index \in 0..(Len(store.clauses) - 1)
                /\ l \in PartsOf(store.clauses[index + 1])

\* The stored clauses that hold l and are not in visited, in insertion order.
Containing(store, l, visited) ==
    SelectSeq(store.clauses, LAMBDA c : l \in PartsOf(c) /\ c \notin visited)

\* The literals of the stored clauses and their negations.
LiteralsOf(store) ==
    LET stored == UNION {PartsOf(store.clauses[i]) : i \in 1..Len(store.clauses)}
    IN  stored \cup {negate(l) : l \in stored}

\* get hands out the stored clauses holding l that are not in visited, in
\* insertion order, for every literal and the visited set of every activation.
GetExact(store) ==
    \A l \in LiteralsOf(store) :
        \A visited \in {{}} \cup {stack[k].visited : k \in 1..Len(stack)} :
            get(store, l, visited) = Containing(store, l, visited)

\* C13: a store filled by put records every stored clause under each of its
\* literals, records nothing else, and get returns the stored clauses that
\* hold the literal and are not in visited, in insertion order.
C13_StoreIndex ==
    /\ AfterSetup =>
         IndexComplete(clauses) /\ IndexExact(clauses) /\ GetExact(clauses)
    /\ Searching =>
         IndexComplete(all_clauses) /\ IndexExact(all_clauses)
             /\ GetExact(all_clauses)

\* Two activations on the recursion path were called with the same current
\* clause and the same visited set: resolve_ reads nothing else that
\* changes (the store is fixed), so the inner one goes through the calls
\* of the outer one again.
RepeatedCall ==
    \E i, j \in 1..Len(stack) :
        /\ i < j
        /\ stack[i].current = stack[j].current
        /\ stack[i].visited = stack[j].visited

\* C14: once clausification has succeeded every search of resolve_ ends:
\* the recursion never calls resolve_ again with the arguments of an
\* activation still on the path, and never exhausts the stack.
C14_SearchTerminates == ~RepeatedCall /\ pc # "overflow"

=============================================================================
